---- MODULE Spec2Model ----
(***************************************************************************)
(* A model of the sleep command line tool (src/sleep/cli.py): the record   *)
(* normaliser behind `build` (transform_for_chart, the nap/fixup merge,    *)
(* the activity and subjective attachment), process_activity,              *)
(* extract_runs, build_activities_by_date and parse_subjective; then       *)
(* generate_fixup_segments and `fixup`, and the token handling of `dump`   *)
(* and `sync` with the fetch functions of src/sleep/fitbit.py.             *)
(*                                                                         *)
(* Representation.                                                         *)
(*  - A JSON file is [exists |-> BOOLEAN, content |-> sequence].           *)
(*  - Python's None is the empty sequence None, a present value x is       *)
(*    Some(x) = <<x>>.  A dict key that is absent is a field that is not   *)
(*    in the DOMAIN of the record.                                         *)
(*  - startTime / endTime / dateTime of sleep records are fixed-width      *)
(*    ISO-8601 strings which the code only compares (<, <=, sort key);     *)
(*    they are integers here, ordered as the strings are.  dateOfSleep     *)
(*    ("YYYY-MM-DD") is an integer day number for the same reason.         *)
(*  - An activity's startTime is the pair <<date, clock>> standing for     *)
(*    the string date ++ "T" ++ clock; the empty string is <<>>.           *)
(*  - Minutes that the code computes with "/" (floats) are kept exactly    *)
(*    as integers scaled by SecPerMin: the chart fields deep, light, rem   *)
(*    and wake are all in sixtieths of a minute.                           *)
(*  - Text (the subjective "data" field) is a sequence of one-character    *)
(*    strings.  The date of an activity or of a subjective row is a day    *)
(*    number like dateOfSleep; the empty date string is 0.                 *)
(***************************************************************************)
EXTENDS Integers, Sequences, FiniteSets, Bags, TLC

VARIABLES
    sleep_json,       \* data/sleep.json
    fixups_json,      \* data/fixups.json
    activities_json,  \* data/activities.json
    subjective_json,  \* data/subjective.json
    data_json,        \* ui/data.json, the chart artefact
    pc,               \* position of the running command
    arg,              \* argument of the function under call
    ret,              \* its result: None before the call, Some(result) after
    tokens_json,      \* ~/.config/sleep/tokens.json
    locals,           \* local variables of the function that is running
    requests          \* the HTTP requests sent so far, oldest first

vars == <<sleep_json, fixups_json, activities_json, subjective_json,
          data_json, pc, arg, ret, tokens_json, locals, requests>>

None == <<>>
Some(x) == <<x>>

NoFile == [exists |-> FALSE, content |-> <<>>]
File(c) == [exists |-> TRUE, content |-> c]

Max(a, b) == IF a >= b THEN a ELSE b

SeqsUpTo(S, n) == UNION {[1..k -> S] : k \in 0..n}

\* seconds / 60 (cli.py:259): minutes are held in sixtieths.
SecPerMin == 60

(***************************************************************************)
(* transform_for_chart                                                     *)
(***************************************************************************)

\* d.get(k, {}).get("minutes", 0), in sixtieths of a minute
get_minutes(summary, k) ==
    IF k \in DOMAIN summary /\ "minutes" \in DOMAIN summary[k]
    THEN summary[k].minutes * SecPerMin
    ELSE 0

\* levels.get("data", []) and levels.get("shortData", [])
get_list(levels, k) == IF k \in DOMAIN levels THEN levels[k] ELSE <<>>

insert_unsorted(sorted, x) == Append(sorted, x)

\* list.sort(key=lambda s: s["dateTime"]): stable, ascending
insert_by_dateTime(sorted, x) ==
    LET k == Cardinality({i \in 1..Len(sorted) : sorted[i].dateTime <= x.dateTime})
    IN  SubSeq(sorted, 1, k) \o <<x>> \o SubSeq(sorted, k + 1, Len(sorted))

RECURSIVE sort_by_dateTime(_)
sort_by_dateTime(s) ==
    IF s = <<>> THEN <<>>
    ELSE insert_by_dateTime(sort_by_dateTime(SubSeq(s, 1, Len(s) - 1)), s[Len(s)])

\* the stages branch: direct reads of deep, light, rem, wake
stages_minutes(summary) ==
    [deep  |-> get_minutes(summary, "deep"),
     light |-> get_minutes(summary, "light"),
     rem   |-> get_minutes(summary, "rem"),
     wake  |-> get_minutes(summary, "wake")]

classic_minutes_awake_only(summary) ==
    [deep  |-> 0,
     light |-> get_minutes(summary, "asleep"),
     rem   |-> 0,
     wake  |-> get_minutes(summary, "awake")]

\* the classic branch: asleep -> light, awake + restless -> wake
classic_minutes(summary) ==
    [deep  |-> 0,
     light |-> get_minutes(summary, "asleep"),
     rem   |-> 0,
     wake  |-> get_minutes(summary, "awake") + get_minutes(summary, "restless")]

\* the classic branch's rewrite of one segment's level
normalize_level(seg) ==
    IF seg.level = "asleep" THEN [seg EXCEPT !.level = "light"]
    ELSE IF seg.level \in {"awake", "restless"} THEN [seg EXCEPT !.level = "wake"]
    ELSE seg

terminal_awake_first(segments) ==
    IF segments # <<>> /\ segments[1].level = "wake"
    THEN segments[1].seconds
    ELSE 0

\* seconds of the last segment when it is a wake segment, else 0
terminal_awake(segments) ==
    IF segments # <<>> /\ segments[Len(segments)].level = "wake"
    THEN segments[Len(segments)].seconds
    ELSE 0

transform_for_chart(record) ==
    LET summary  == record.levels.summary
        sorted   == sort_by_dateTime(get_list(record.levels, "data")
                                     \o get_list(record.levels, "shortData"))
        stages   == "deep" \in DOMAIN summary
        m        == IF stages THEN stages_minutes(summary) ELSE classic_minutes(summary)
        segments == IF stages THEN sorted
                    ELSE [i \in 1..Len(sorted) |-> normalize_level(sorted[i])]
    IN  [date       |-> record.dateOfSleep,
         deep       |-> m.deep,
         light      |-> m.light,
         rem        |-> m.rem,
         wake       |-> Max(0, m.wake - terminal_awake(segments)),
         efficiency |-> IF "efficiency" \in DOMAIN record THEN record.efficiency ELSE 0,
         startTime  |-> record.startTime,
         endTime    |-> record.endTime,
         segments   |-> segments]

(***************************************************************************)
(* Inputs of transform_for_chart                                           *)
(***************************************************************************)

MaxSegs == 2

M(n) == [count |-> 1, minutes |-> n]

Summaries ==
    { [deep |-> M(10), light |-> M(200), rem |-> M(50), wake |-> M(20)],
      [deep |-> M(10), wake |-> [count |-> 0]],
      [asleep |-> M(30), awake |-> M(2), restless |-> M(3)],
      [restless |-> M(20)] }

SegTimes == {0, 1}

\* wake-like segments are short or longer than any summary's wake minutes
Segs ==
    [dateTime : SegTimes, level : {"wake", "awake"}, seconds : {90, 1500}]
    \cup [dateTime : SegTimes, level : {"light", "asleep", "restless"}, seconds : {600}]

ShortSegs == {<<>>} \cup {<<[dateTime |-> t, level |-> "wake", seconds |-> 30]>> : t \in SegTimes}

TransformInputs ==
    { [dateOfSleep |-> 1, isMainSleep |-> TRUE, startTime |-> 0, endTime |-> 2,
       efficiency |-> 90, levels |-> [summary |-> s, data |-> d, shortData |-> sh]] :
         s \in Summaries, d \in SeqsUpTo(Segs, MaxSegs), sh \in ShortSegs }
    \cup
    { [dateOfSleep |-> 1, isMainSleep |-> FALSE, startTime |-> 0, endTime |-> 2,
       levels |-> [summary |-> s, data |-> d]] :
         s \in Summaries, d \in SeqsUpTo(Segs, MaxSegs) }

InitTransform ==
    /\ sleep_json = NoFile /\ fixups_json = NoFile
    /\ activities_json = NoFile /\ subjective_json = NoFile
    /\ data_json = NoFile
    /\ pc = "transform_for_chart"
    /\ arg \in TransformInputs
    /\ ret = None
    /\ tokens_json = NoFile /\ locals = None /\ requests = <<>>

CallTransform ==
    /\ pc = "transform_for_chart"
    /\ ret = None
    /\ ret' = Some(transform_for_chart(arg))
    /\ pc' = "done"
    /\ UNCHANGED <<sleep_json, fixups_json, activities_json, subjective_json,
                   data_json, arg, tokens_json, locals, requests>>

NextTransform == CallTransform

SpecTransform == InitTransform /\ [][NextTransform]_vars

(***************************************************************************)
(* Claims about transform_for_chart                                        *)
(***************************************************************************)

Range(s) == {s[i] : i \in 1..Len(s)}

\* the bag (multiset) of the elements of a sequence
BagOfSeq(s) == [x \in Range(s) |-> Cardinality({i \in 1..Len(s) : s[i] = x})]

\* data + shortData as stored in the record, before any sorting
RawSegments(record) ==
    get_list(record.levels, "data") \o get_list(record.levels, "shortData")

IsStages(record) == "deep" \in DOMAIN record.levels.summary

\* the level a raw segment is expected to be rendered with
ExpectedLevel(record, seg) ==
    IF IsStages(record) THEN seg.level
    ELSE IF seg.level = "asleep" THEN "light"
    ELSE IF seg.level \in {"awake", "restless"} THEN "wake"
    ELSE seg.level

\* the wake minutes of the summary (sixtieths): wake, or awake + restless
ExpectedWake(record) ==
    LET s == record.levels.summary
    IN  IF IsStages(record) THEN get_minutes(s, "wake")
        ELSE get_minutes(s, "awake") + get_minutes(s, "restless")

\* the index in RawSegments of the last segment in ascending dateTime order
\* (among equal dateTimes, the one latest in data + shortData)
LastByTime(all) ==
    CHOOSE i \in 1..Len(all) :
        \A j \in 1..Len(all) :
            \/ all[j].dateTime < all[i].dateTime
            \/ all[j].dateTime = all[i].dateTime /\ j <= i

EndsAwake(record) ==
    LET all == RawSegments(record)
    IN  all # <<>> /\ ExpectedLevel(record, all[LastByTime(all)]) = "wake"

\* C4: terminal-wake trimming.  When the last segment by dateTime of
\* data + shortData is a wake segment (after classic normalisation) the
\* returned wake is max(0, summary wake - its seconds / 60); when it is not,
\* or there is no segment, wake is the summary's wake unchanged; deep, light
\* and rem are the extracted minutes whatever the segments are.
TerminalWakeTrimmed ==
    ret # None =>
        LET r   == ret[1]
            all == RawSegments(arg)
            s   == arg.levels.summary
        IN  /\ EndsAwake(arg) =>
                r.wake = Max(0, ExpectedWake(arg) - all[LastByTime(all)].seconds)
            /\ ~EndsAwake(arg) => r.wake = ExpectedWake(arg)
            /\ r.deep  = (IF IsStages(arg) THEN get_minutes(s, "deep") ELSE 0)
            /\ r.rem   = (IF IsStages(arg) THEN get_minutes(s, "rem") ELSE 0)
            /\ r.light = (IF IsStages(arg) THEN get_minutes(s, "light")
                          ELSE get_minutes(s, "asleep"))

\* a record whose last segment is a wake segment shorter than the summary's
\* wake minutes has been transformed
TerminalWakeTrimmedWitness ==
    /\ ret # None
    /\ EndsAwake(arg)
    /\ Len(RawSegments(arg)) >= 2
    /\ 0 < ret[1].wake
    /\ ret[1].wake < ExpectedWake(arg)

\* C5: stage extraction.  With deep in the summary the four totals are the
\* summary's own minutes (0 for a missing key) and the segments keep their
\* levels; without it deep = rem = 0, light = asleep, wake = awake + restless
\* (before trimming) and no returned segment is left asleep, awake or
\* restless: each is the input segment with asleep -> light and
\* awake | restless -> wake.
StageExtraction ==
    ret # None =>
        LET r   == ret[1]
            s   == arg.levels.summary
            all == RawSegments(arg)
            exp == [i \in 1..Len(all) |->
                       [all[i] EXCEPT !.level = ExpectedLevel(arg, all[i])]]
        IN  /\ IsStages(arg) =>
                /\ r.deep  = get_minutes(s, "deep")
                /\ r.light = get_minutes(s, "light")
                /\ r.rem   = get_minutes(s, "rem")
                /\ r.wake  = Max(0, get_minutes(s, "wake") - terminal_awake(r.segments))
                /\ BagOfSeq(r.segments) = BagOfSeq(all)
            /\ ~IsStages(arg) =>
                /\ r.deep = 0 /\ r.rem = 0
                /\ r.light = get_minutes(s, "asleep")
                /\ r.wake  = Max(0, get_minutes(s, "awake") + get_minutes(s, "restless")
                                    - terminal_awake(r.segments))
                /\ \A i \in 1..Len(r.segments) :
                       r.segments[i].level \notin {"asleep", "awake", "restless"}
                /\ BagOfSeq(r.segments) = BagOfSeq(exp)

\* a classic record with awake and restless minutes and segments of all
\* three classic levels has been transformed
StageExtractionWitness ==
    /\ ret # None
    /\ ~IsStages(arg)
    /\ get_minutes(arg.levels.summary, "awake") > 0
    /\ get_minutes(arg.levels.summary, "restless") > 0
    /\ \E i, j \in 1..Len(RawSegments(arg)) :
           /\ RawSegments(arg)[i].level = "restless"
           /\ RawSegments(arg)[j].level = "asleep"
    /\ ret[1].wake > 0

(***************************************************************************)
(* process_activity, is_run, extract_runs, build_activities_by_date        *)
(*                                                                         *)
(* A raw activity has activeDuration in milliseconds and distance in       *)
(* metres (the vendor's float kilometres, to three decimals).  A processed *)
(* activity has duration in whole minutes, distance in hundredths of a     *)
(* kilometre (two decimals) and speed in tenths of a km/h (one decimal).   *)
(***************************************************************************)

\* is_run: speed > 8 (km/h)
RunSpeed == 8

speed_truncated(distance_m, duration_ms) ==
    IF duration_ms > 0
    THEN (distance_m * 10 * SecPerMin * SecPerMin) \div duration_ms
    ELSE 0

\* round() of n / d: nearest, a tie going to the even neighbour; n >= 0, d > 0.
\* (On a float that is not exactly the tie, the float's own value decides; the
\* inputs below hold no such tie.)
round(n, d) ==
    LET q == n \div d
        r == n % d
    IN  IF 2 * r < d THEN q
        ELSE IF 2 * r > d THEN q + 1
        ELSE IF q % 2 = 0 THEN q ELSE q + 1

\* act.get(k, default)
get(act, k, default) == IF k \in DOMAIN act THEN act[k] ELSE default

\* round(distance_km / (duration_min / 60), 1) if duration_min > 0 else 0,
\* in tenths: km / h = (m / 1000) / (ms / 1000 / 60 / 60) = m * 60 * 60 / ms
speed(distance_m, duration_ms) ==
    IF duration_ms > 0
    THEN round(distance_m * 10 * SecPerMin * SecPerMin, duration_ms)
    ELSE 0

process_activity_keep_all(act) ==
    LET start == get(act, "startTime", <<>>)
    IN  Some([name      |-> get(act, "activityName", None),
              date      |-> IF start = <<>> THEN <<>> ELSE start[1],
              startTime |-> start,
              duration  |-> round(get(act, "activeDuration", 0), 1000 * SecPerMin),
              distance  |-> round(get(act, "distance", 0), 10),
              speed     |-> speed(get(act, "distance", 0), get(act, "activeDuration", 0))])

\* None for an activity without a start time, else Some(processed activity);
\* start[:10] is the date part of the start time
process_activity(act) ==
    LET start == get(act, "startTime", <<>>)
    IN  IF start = <<>> THEN None
        ELSE Some([name      |-> get(act, "activityName", None),
                   date      |-> start[1],
                   startTime |-> start,
                   duration  |-> round(get(act, "activeDuration", 0), 1000 * SecPerMin),
                   distance  |-> round(get(act, "distance", 0), 10),
                   speed     |-> speed(get(act, "distance", 0),
                                       get(act, "activeDuration", 0))])

is_run_at_threshold(activity) == get(activity, "speed", 0) >= RunSpeed * 10

\* speed > 8 km/h
is_run(activity) == get(activity, "speed", 0) > RunSpeed * 10

RECURSIVE extract_runs(_)
extract_runs(activities) ==
    IF activities = <<>> THEN <<>>
    ELSE LET a == process_activity(activities[1])
             rest == extract_runs(Tail(activities))
         IN  IF a # None /\ is_run(a[1]) THEN <<a[1]>> \o rest ELSE rest

\* the processed activities of one date, in input order
RECURSIVE processed_on(_, _)
processed_on(activities, date) ==
    IF activities = <<>> THEN <<>>
    ELSE LET a == process_activity(activities[1])
             rest == processed_on(Tail(activities), date)
         IN  IF a # None /\ a[1].date = date THEN <<a[1]>> \o rest ELSE rest

\* dict date -> processed activities of that date
build_activities_by_date(activities) ==
    LET dates == {process_activity(activities[i])[1].date :
                     i \in {j \in 1..Len(activities) : process_activity(activities[j]) # None}}
    IN  [d \in dates |-> processed_on(activities, d)]

\* runs_by_date.setdefault(run["date"], []).append(run)
group_runs_by_date(all_runs) ==
    LET dates == {all_runs[i].date : i \in 1..Len(all_runs)}
    IN  [d \in dates |-> SelectSeq(all_runs, LAMBDA r : r.date = d)]

\* d.get(key, default) on a dict
dict_get(d, key, default) == IF key \in DOMAIN d THEN d[key] ELSE default

(***************************************************************************)
(* Inputs of the activity functions                                        *)
(***************************************************************************)

MaxActs == 3

Days == {1, 2}

StartTimes == {<<>>} \cup {<<d, "07:30:00.000">> : d \in Days}

\* 20 s, 30 min, 1 h
Durations == {0, 20000, 1800000, 3600000}

\* 4 m, 8 km, 8.1 km, 12.346 km
Distances == {0, 4, 8000, 8100, 12346}

RawActivities ==
    [startTime : StartTimes, activeDuration : Durations, distance : Distances,
     activityName : {"Run"}]
    \cup [activeDuration : Durations, distance : Distances]
    \cup [startTime : StartTimes \ {<<>>}, activityName : {"Walk"}]

ListActivities ==
    [startTime : StartTimes, activeDuration : {3600000}, distance : {8000, 8100},
     activityName : {"Run"}]
    \cup [activeDuration : {1800000}, distance : {8000}]

InitActivities ==
    /\ sleep_json = NoFile /\ fixups_json = NoFile
    /\ activities_json = NoFile /\ subjective_json = NoFile
    /\ data_json = NoFile
    /\ pc \in {"process_activity", "extract_runs", "build_activities_by_date"}
    /\ arg \in IF pc = "process_activity" THEN RawActivities
               ELSE SeqsUpTo(ListActivities, MaxActs)
    /\ ret = None
    /\ tokens_json = NoFile /\ locals = None /\ requests = <<>>

CallProcessActivity ==
    /\ pc = "process_activity"
    /\ ret' = Some(process_activity(arg))
    /\ pc' = "process_activity_done"
    /\ UNCHANGED <<sleep_json, fixups_json, activities_json, subjective_json,
                   data_json, arg, tokens_json, locals, requests>>

CallExtractRuns ==
    /\ pc = "extract_runs"
    /\ ret' = Some(extract_runs(arg))
    /\ pc' = "extract_runs_done"
    /\ UNCHANGED <<sleep_json, fixups_json, activities_json, subjective_json,
                   data_json, arg, tokens_json, locals, requests>>

CallBuildActivitiesByDate ==
    /\ pc = "build_activities_by_date"
    /\ ret' = Some(build_activities_by_date(arg))
    /\ pc' = "build_activities_by_date_done"
    /\ UNCHANGED <<sleep_json, fixups_json, activities_json, subjective_json,
                   data_json, arg, tokens_json, locals, requests>>

NextActivities ==
    \/ CallProcessActivity
    \/ CallExtractRuns
    \/ CallBuildActivitiesByDate

SpecActivities == InitActivities /\ [][NextActivities]_vars

(***************************************************************************)
(* Claims about the activity functions                                     *)
(***************************************************************************)

HasStart(act) == "startTime" \in DOMAIN act /\ act.startTime # <<>>

\* the elements of s at the indices I, in ascending index order
Pick(s, I) ==
    LET f == [k \in 1..Cardinality(I) |->
                 CHOOSE i \in I : Cardinality({j \in I : j <= i}) = k]
    IN  [k \in 1..Cardinality(I) |-> s[f[k]]]

\* ten times distance_km / (duration_min / 60), as numerator over denominator
SpeedNum(act) == get(act, "distance", 0) * 10 * SecPerMin * SecPerMin
SpeedDen(act) == get(act, "activeDuration", 0)

Abs(x) == IF x >= 0 THEN x ELSE -x

\* C8 as stated: speed = 0 exactly when the duration is 0.  Whether "the
\* duration" is the raw activeDuration or the returned duration in minutes,
\* the statement says at least this much.
SpeedZeroIffDurationZero ==
    (pc = "process_activity_done" /\ ret[1] # None) =>
        LET r == ret[1][1]
        IN  /\ SpeedDen(arg) = 0 => r.speed = 0
            /\ r.speed = 0 => r.duration = 0

\* C8 amended: speed is 0 when the duration is 0; with a positive duration
\* it is distance / (duration_min / 60) rounded to one decimal place, which
\* is 0 whenever that quotient is below 0.05 (a zero distance included).
SpeedRounded ==
    (pc = "process_activity_done" /\ ret[1] # None) =>
        LET r == ret[1][1]
        IN  /\ SpeedDen(arg) = 0 => r.speed = 0
            /\ SpeedDen(arg) > 0 =>
                   2 * Abs(r.speed * SpeedDen(arg) - SpeedNum(arg)) <= SpeedDen(arg)
            /\ r.speed = 0 =>
                   SpeedDen(arg) = 0 \/ 2 * SpeedNum(arg) <= SpeedDen(arg)
            /\ (SpeedDen(arg) > 0 /\ 2 * SpeedNum(arg) < SpeedDen(arg)) => r.speed = 0

\* an activity of positive duration and positive distance got speed 0, and
\* so did none of the 20 second activities of 8 km
SpeedRoundedWitness ==
    /\ pc = "process_activity_done"
    /\ ret[1] # None
    /\ SpeedDen(arg) > 0
    /\ get(arg, "distance", 0) > 0
    /\ ret[1][1].speed = 0
    /\ ret[1][1].duration > 0

\* C9: process_activity returns None exactly for an empty or missing
\* startTime; extract_runs returns the processed activities with a start
\* time and speed > 8, in input order; build_activities_by_date holds every
\* processed activity with a start time, under its date, in input order,
\* and nothing else.
InvalidDroppedRunsKept ==
    /\ pc = "process_activity_done" => (ret[1] = None <=> ~HasStart(arg))
    /\ pc = "extract_runs_done" =>
           LET fast == {i \in 1..Len(arg) :
                           /\ HasStart(arg[i])
                           /\ speed(get(arg[i], "distance", 0),
                                    get(arg[i], "activeDuration", 0)) > RunSpeed * 10}
               picked == Pick(arg, fast)
           IN  ret[1] = [k \in 1..Len(picked) |-> process_activity(picked[k])[1]]
    /\ pc = "build_activities_by_date_done" =>
           LET valid == {i \in 1..Len(arg) : HasStart(arg[i])}
               by_date == ret[1]
           IN  /\ DOMAIN by_date = {arg[i].startTime[1] : i \in valid}
               /\ \A d \in DOMAIN by_date :
                      LET picked == Pick(arg, {i \in valid : arg[i].startTime[1] = d})
                      IN  by_date[d] =
                              [k \in 1..Len(picked) |-> process_activity(picked[k])[1]]

\* extract_runs was given an activity without start time, one at exactly
\* 8 km/h and a faster one, and returned the faster one alone
InvalidDroppedRunsKeptWitness ==
    /\ pc = "extract_runs_done"
    /\ Len(arg) = 3
    /\ ~HasStart(arg[1])
    /\ HasStart(arg[2]) /\ process_activity(arg[2])[1].speed = RunSpeed * 10
    /\ HasStart(arg[3]) /\ process_activity(arg[3])[1].speed > RunSpeed * 10
    /\ Len(ret[1]) = 1
    /\ ret[1][1].startTime = arg[3].startTime

(***************************************************************************)
(* parse_subjective                                                        *)
(***************************************************************************)

Digits == {"0", "1", "2", "3", "4", "5", "6", "7", "8", "9"}

digit_value(c) ==
    CASE c = "0" -> 0 [] c = "1" -> 1 [] c = "2" -> 2 [] c = "3" -> 3
      [] c = "4" -> 4 [] c = "5" -> 5 [] c = "6" -> 6 [] c = "7" -> 7
      [] c = "8" -> 8 [] c = "9" -> 9

\* str.lower() on the letters of the model's alphabet
lower(c) ==
    IF c = "X" THEN "x" ELSE IF c = "K" THEN "k" ELSE c

\* "x" in data.lower()
contains_x(data) == \E i \in 1..Len(data) : lower(data[i]) = "x"

\* text.replace(ch, "")
replace_char(text, ch) == SelectSeq(text, LAMBDA c : c # ch)

clean_text_lower_only(data) == replace_char(data, "x")

\* data.replace("x", "").replace("X", "")
clean_text(data) == replace_char(replace_char(data, "x"), "X")

\* int() of a string of digits
RECURSIVE int(_)
int(digits) ==
    IF digits = <<>> THEN 0
    ELSE 10 * int(SubSeq(digits, 1, Len(digits) - 1)) + digit_value(digits[Len(digits)])

\* re.search(r"(\d+)", text): the leftmost match, greedy; None without one
search_digits(text) ==
    LET starts == {i \in 1..Len(text) : text[i] \in Digits}
    IN  IF starts = {} THEN None
        ELSE LET i == CHOOSE a \in starts : \A b \in starts : a <= b
                 j == CHOOSE e \in i..Len(text) :
                          /\ \A k \in i..e : text[k] \in Digits
                          /\ e = Len(text) \/ text[e + 1] \notin Digits
             IN  Some(SubSeq(text, i, j))

\* re.sub(r"\d+", "", text)
sub_digits(text) == SelectSeq(text, LAMBDA c : c \notin Digits)

parse_subjective(row) ==
    LET data  == get(row, "data", <<>>)
        clean == clean_text(data)
        match == search_digits(clean)
        code  == sub_digits(clean)
    IN  [code    |-> IF code = <<>> THEN None ELSE Some(code),
         score   |-> IF match # None THEN Some(int(match[1])) ELSE None,
         raw     |-> data,
         exclude |-> contains_x(data)]

MaxText == 3

Chars == {"c", "K", "x", "X", "0", "9"}

Rows == {[date |-> 1, data |-> t] : t \in SeqsUpTo(Chars, MaxText)} \cup {[date |-> 1]}

InitSubjective ==
    /\ sleep_json = NoFile /\ fixups_json = NoFile
    /\ activities_json = NoFile /\ subjective_json = NoFile
    /\ data_json = NoFile
    /\ pc = "parse_subjective"
    /\ arg \in Rows
    /\ ret = None
    /\ tokens_json = NoFile /\ locals = None /\ requests = <<>>

CallParseSubjective ==
    /\ pc = "parse_subjective"
    /\ ret' = Some(parse_subjective(arg))
    /\ pc' = "parse_subjective_done"
    /\ UNCHANGED <<sleep_json, fixups_json, activities_json, subjective_json,
                   data_json, arg, tokens_json, locals, requests>>

NextSubjective == CallParseSubjective

SpecSubjective == InitSubjective /\ [][NextSubjective]_vars

(***************************************************************************)
(* Claims about parse_subjective                                           *)
(***************************************************************************)

RECURSIVE Pow10(_)
Pow10(n) == IF n = 0 THEN 1 ELSE 10 * Pow10(n - 1)

\* the number a run of digits text[i..j] denotes
RunValue(text, i, j) ==
    LET RECURSIVE Sum(_)
        Sum(k) == IF k > j THEN 0
                  ELSE digit_value(text[k]) * Pow10(j - k) + Sum(k + 1)
    IN  Sum(i)

\* C10: exclude iff the text holds x or X; score is the value of the first
\* maximal run of digits of the text without its x/X, None when it has no
\* digit; code is the text without x/X and digits, None when that is
\* empty; raw is the text itself.
SubjectiveParsed ==
    pc = "parse_subjective_done" =>
        LET r     == ret[1]
            data  == IF "data" \in DOMAIN arg THEN arg.data ELSE <<>>
            clean == SelectSeq(data, LAMBDA c : c \notin {"x", "X"})
            rest  == SelectSeq(clean, LAMBDA c : c \notin Digits)
        IN  /\ r.raw = data
            /\ r.exclude <=> \E i \in 1..Len(data) : data[i] \in {"x", "X"}
            /\ r.code = (IF rest = <<>> THEN None ELSE Some(rest))
            /\ (\A i \in 1..Len(clean) : clean[i] \notin Digits) => r.score = None
            /\ \A i \in 1..Len(clean) : \A j \in i..Len(clean) :
                   ( /\ \A k \in 1..(i - 1) : clean[k] \notin Digits
                     /\ \A k \in i..j : clean[k] \in Digits
                     /\ j = Len(clean) \/ clean[j + 1] \notin Digits )
                   => r.score = Some(RunValue(clean, i, j))

\* "9x0" was parsed: the digits around the x are one run, 90
SubjectiveParsedWitness ==
    /\ pc = "parse_subjective_done"
    /\ arg = [date |-> 1, data |-> <<"9", "x", "0">>]
    /\ ret[1] = [code |-> None, score |-> Some(90), raw |-> <<"9", "x", "0">>,
                 exclude |-> TRUE]

(***************************************************************************)
(* build                                                                   *)
(***************************************************************************)

\* record.get("isMainSleep")
is_main(record) == "isMainSleep" \in DOMAIN record /\ record.isMainSleep

\* the keys of by_date, in insertion order (first appearance in sleep_raw)
RECURSIVE dates_in_order(_)
dates_in_order(sleep_raw) ==
    IF sleep_raw = <<>> THEN <<>>
    ELSE LET front == dates_in_order(SubSeq(sleep_raw, 1, Len(sleep_raw) - 1))
             date  == sleep_raw[Len(sleep_raw)].dateOfSleep
         IN  IF \E i \in 1..Len(front) : front[i] = date THEN front
             ELSE Append(front, date)

\* by_date[date]: the last main record assigned, and the naps in input order
group_of(sleep_raw, date) ==
    LET mains == {i \in 1..Len(sleep_raw) :
                     sleep_raw[i].dateOfSleep = date /\ is_main(sleep_raw[i])}
    IN  [main |-> IF mains = {} THEN None
                  ELSE Some(sleep_raw[CHOOSE i \in mains : \A j \in mains : j <= i]),
         naps |-> SelectSeq(sleep_raw,
                            LAMBDA r : r.dateOfSleep = date /\ ~is_main(r))]

is_presleep_fixup_strict(nap_data, main_start) == nap_data.endTime < main_start

\* nap_data["endTime"] <= main_start
is_presleep_fixup(nap_data, main_start) == nap_data.endTime <= main_start

\* seg["isNap"] = True
mark_nap(seg) == [isNap |-> TRUE] @@ seg

add_minutes_without_wake(entry, nap_data) ==
    [entry EXCEPT !.deep  = @ + nap_data.deep,
                  !.light = @ + nap_data.light,
                  !.rem   = @ + nap_data.rem]

\* entry[k] += nap_data[k] for deep, light, rem, wake
add_minutes(entry, nap_data) ==
    [entry EXCEPT !.deep  = @ + nap_data.deep,
                  !.light = @ + nap_data.light,
                  !.rem   = @ + nap_data.rem,
                  !.wake  = @ + nap_data.wake]

\* one pass of the loop over group["naps"]
merge_nap(entry, nap, main_start) ==
    LET nap_data == transform_for_chart(nap)
        summed   == add_minutes(entry, nap_data)
    IN  IF is_presleep_fixup(nap_data, main_start)
        THEN [summed EXCEPT
                 !.startTime = IF nap_data.startTime < @ THEN nap_data.startTime ELSE @,
                 !.segments  = @ \o nap_data.segments]
        ELSE [summed EXCEPT
                 !.segments  = @ \o [i \in 1..Len(nap_data.segments) |->
                                        mark_nap(nap_data.segments[i])]]

RECURSIVE merge_naps(_, _, _)
merge_naps(entry, naps, main_start) ==
    IF naps = <<>> THEN entry
    ELSE merge_naps(merge_nap(entry, naps[1], main_start), Tail(naps), main_start)

\* the chart entry of one date group that has a main record
merge_group(group) ==
    LET entry  == transform_for_chart(group.main[1])
        merged == merge_naps(entry, group.naps, entry.startTime)
    IN  [merged EXCEPT !.segments = sort_by_dateTime(@)]

\* chart_data before the sort: one entry per date with a main record
RECURSIVE chart_entries(_, _)
chart_entries(sleep_raw, dates) ==
    IF dates = <<>> THEN <<>>
    ELSE LET group == group_of(sleep_raw, dates[1])
             rest  == chart_entries(sleep_raw, Tail(dates))
         IN  IF group.main = None THEN rest
             ELSE <<merge_group(group)>> \o rest

insert_at_end(sorted, x) == Append(sorted, x)

\* chart_data.sort(key=lambda x: x["date"]): stable, ascending
insert_by_date(sorted, x) ==
    LET k == Cardinality({i \in 1..Len(sorted) : sorted[i].date <= x.date})
    IN  SubSeq(sorted, 1, k) \o <<x>> \o SubSeq(sorted, k + 1, Len(sorted))

RECURSIVE sort_by_date(_)
sort_by_date(s) ==
    IF s = <<>> THEN <<>>
    ELSE insert_by_date(sort_by_date(SubSeq(s, 1, Len(s) - 1)), s[Len(s)])

\* subj_by_date: the parsed row of each date, the last row of a date winning;
\* rows whose date is missing or empty (the empty date string is 0) are left out
subj_by_date(subjective) ==
    LET rows  == {i \in 1..Len(subjective) :
                     "date" \in DOMAIN subjective[i] /\ subjective[i].date # 0}
        dates == {subjective[i].date : i \in rows}
    IN  [d \in dates |->
            parse_subjective(
                subjective[CHOOSE i \in rows :
                              /\ subjective[i].date = d
                              /\ \A j \in rows : subjective[j].date = d => j <= i])]

\* record["subjective"] = subj_by_date.get(record["date"]), if the file exists
merge_subjective(chart_data, file) ==
    IF ~file.exists THEN chart_data
    ELSE LET by == subj_by_date(file.content)
         IN  [i \in 1..Len(chart_data) |->
                 [subjective |-> IF chart_data[i].date \in DOMAIN by
                                 THEN Some(by[chart_data[i].date]) ELSE None]
                 @@ chart_data[i]]

merge_activities_runs_unfiltered(chart_data, file) ==
    IF ~file.exists THEN chart_data
    ELSE LET activities_by_date == build_activities_by_date(file.content)
         IN  [i \in 1..Len(chart_data) |->
                 [activities |-> dict_get(activities_by_date, chart_data[i].date, <<>>),
                  runs       |-> dict_get(activities_by_date, chart_data[i].date, <<>>)]
                 @@ chart_data[i]]

\* record["activities"], record["runs"] from the file, if the file exists
merge_activities(chart_data, file) ==
    IF ~file.exists THEN chart_data
    ELSE LET activities_by_date == build_activities_by_date(file.content)
             runs_by_date       == group_runs_by_date(extract_runs(file.content))
         IN  [i \in 1..Len(chart_data) |->
                 [activities |-> dict_get(activities_by_date, chart_data[i].date, <<>>),
                  runs       |-> dict_get(runs_by_date, chart_data[i].date, <<>>)]
                 @@ chart_data[i]]

\* sleep.json extended by fixups.json when that file exists
sleep_raw_of(sleep, fixups) ==
    sleep.content \o (IF fixups.exists THEN fixups.content ELSE <<>>)

\* the chart records `build` writes
build_chart(sleep, fixups, subjective, activities) ==
    LET sleep_raw  == sleep_raw_of(sleep, fixups)
        chart_data == sort_by_date(chart_entries(sleep_raw, dates_in_order(sleep_raw)))
    IN  merge_activities(merge_subjective(chart_data, subjective), activities)

\* `build` with sleep.json present: ui/data.json is written wholesale
Build ==
    /\ pc = "build"
    /\ sleep_json.exists
    /\ data_json' = File(build_chart(sleep_json, fixups_json, subjective_json,
                                     activities_json))
    /\ pc' = "done"
    /\ UNCHANGED <<sleep_json, fixups_json, activities_json, subjective_json,
                   arg, ret, tokens_json, locals, requests>>

\* `build` without sleep.json: "No data", exit code 1, nothing written
BuildNoData ==
    /\ pc = "build"
    /\ ~sleep_json.exists
    /\ pc' = "exit_1"
    /\ UNCHANGED <<sleep_json, fixups_json, activities_json, subjective_json,
                   data_json, arg, ret, tokens_json, locals, requests>>

NextBuild == Build \/ BuildNoData

(***************************************************************************)
(* Inputs of build: the sleep records                                      *)
(*                                                                         *)
(* Times are in ticks of a quarter of a slot.  A main record (stages, its  *)
(* last segment a wake segment) spans two slots; a nap (classic, its last  *)
(* segment asleep) and a fixup (stages, closing wake segment of 90 s) span *)
(* one.  Segments are stored out of time order.                            *)
(***************************************************************************)

MaxRecords == 3

Dates == {1, 2}
MainSlots == {2, 3}
NapSlots == {0, 1, 2}

Seg(t, l, n) == [dateTime |-> t, level |-> l, seconds |-> n]

MainRecord(d, s) ==
    [dateOfSleep |-> d, isMainSleep |-> TRUE, efficiency |-> 90,
     startTime |-> 4 * s, endTime |-> 4 * (s + 2),
     levels |-> [summary |-> [deep |-> M(10), light |-> M(200), rem |-> M(50),
                              wake |-> M(20)],
                 data |-> <<Seg(4 * s, "light", 600), Seg(4 * s + 7, "wake", 300)>>,
                 shortData |-> <<Seg(4 * s + 1, "wake", 30)>>]]

NapRecord(d, s) ==
    [dateOfSleep |-> d, isMainSleep |-> FALSE, efficiency |-> 80,
     startTime |-> 4 * s, endTime |-> 4 * (s + 1),
     levels |-> [summary |-> [asleep |-> M(30), awake |-> M(2), restless |-> M(3)],
                 data |-> <<Seg(4 * s + 1, "restless", 180), Seg(4 * s, "awake", 120),
                            Seg(4 * s + 2, "asleep", 1800)>>]]

FixupRecord(d, s) ==
    [dateOfSleep |-> d, isMainSleep |-> FALSE, efficiency |-> 90,
     logType |-> "manual_fixup",
     startTime |-> 4 * s, endTime |-> 4 * (s + 1),
     levels |-> [summary |-> [deep |-> M(5), light |-> M(20), rem |-> M(0),
                              wake |-> M(3)],
                 data |-> <<Seg(4 * s, "wake", 60), Seg(4 * s + 1, "deep", 300),
                            Seg(4 * s + 3, "wake", 90)>>,
                 shortData |-> <<>>]]

SleepRecords ==
    {MainRecord(d, s) : d \in Dates, s \in MainSlots}
    \cup {NapRecord(d, s) : d \in Dates, s \in NapSlots}

FixupRecords == {FixupRecord(d, s) : d \in Dates, s \in NapSlots}

SleepFiles == {NoFile} \cup {File(c) : c \in SeqsUpTo(SleepRecords, MaxRecords)}
FixupFiles == {NoFile} \cup {File(c) : c \in SeqsUpTo(FixupRecords, MaxRecords - 1)}

InitBuild ==
    /\ sleep_json \in SleepFiles
    /\ fixups_json \in FixupFiles
    /\ Len(sleep_json.content) + Len(fixups_json.content) <= MaxRecords
    /\ activities_json = NoFile
    /\ subjective_json = NoFile
    /\ data_json = NoFile
    /\ pc = "build"
    /\ arg = None
    /\ ret = None
    /\ tokens_json = NoFile /\ locals = None /\ requests = <<>>

SpecBuild == InitBuild /\ [][NextBuild]_vars

(***************************************************************************)
(* Claims about build: grouping, merging, ordering                         *)
(***************************************************************************)

\* the raw records build read
RawRecords == sleep_raw_of(sleep_json, fixups_json)

Built == pc = "done" /\ data_json.exists

Chart == data_json.content

HasMain(date) ==
    \E i \in 1..Len(RawRecords) :
        RawRecords[i].dateOfSleep = date /\ RawRecords[i].isMainSleep

\* the main record of a date: the last one in the input
MainOf(date) ==
    LET mains == {i \in 1..Len(RawRecords) :
                     RawRecords[i].dateOfSleep = date /\ RawRecords[i].isMainSleep}
    IN  RawRecords[CHOOSE i \in mains : \A j \in mains : j <= i]

\* the indices of the naps and fixups of a date
NapsOf(date) ==
    {i \in 1..Len(RawRecords) :
        RawRecords[i].dateOfSleep = date /\ ~RawRecords[i].isMainSleep}

\* those that end at or before the start of the date's main record
PreSleepOf(date) ==
    {i \in NapsOf(date) : RawRecords[i].endTime <= MainOf(date).startTime}

\* the segments of a record as the chart is expected to show them
ExpectedSegments(record, nap) ==
    LET all == RawSegments(record)
    IN  [i \in 1..Len(all) |->
            IF nap
            THEN [dateTime |-> all[i].dateTime, seconds |-> all[i].seconds,
                  level |-> ExpectedLevel(record, all[i]), isNap |-> TRUE]
            ELSE [dateTime |-> all[i].dateTime, seconds |-> all[i].seconds,
                  level |-> ExpectedLevel(record, all[i])]]

\* the expected segments of the records at the indices I, one after the other
RECURSIVE ExpectedSegmentsOf(_, _)
ExpectedSegmentsOf(I, nap) ==
    IF I = {} THEN <<>>
    ELSE LET i == CHOOSE x \in I : TRUE
         IN  ExpectedSegments(RawRecords[i], nap) \o ExpectedSegmentsOf(I \ {i}, nap)

\* the wake minutes a record contributes (sixtieths), its terminal wake trimmed
ExpectedTrimmedWake(record) ==
    LET all == RawSegments(record)
    IN  IF EndsAwake(record)
        THEN Max(0, ExpectedWake(record) - all[LastByTime(all)].seconds)
        ELSE ExpectedWake(record)

ExpectedStage(record, stage) ==
    IF stage = "wake" THEN ExpectedTrimmedWake(record)
    ELSE IF IsStages(record) THEN get_minutes(record.levels.summary, stage)
    ELSE IF stage = "light" THEN get_minutes(record.levels.summary, "asleep")
    ELSE 0

RECURSIVE SumStage(_, _)
SumStage(I, stage) ==
    IF I = {} THEN 0
    ELSE LET i == CHOOSE x \in I : TRUE
         IN  ExpectedStage(RawRecords[i], stage) + SumStage(I \ {i}, stage)

MinOf(S) == CHOOSE x \in S : \A y \in S : x <= y

\* C1: the chart holds exactly one record for each date that has a main
\* record, none for any other date, in strictly ascending date order.
OneRecordPerMainDate ==
    Built =>
        /\ \A i \in 1..Len(Chart) : HasMain(Chart[i].date)
        /\ \A k \in 1..Len(RawRecords) :
               Cardinality({i \in 1..Len(Chart) :
                               Chart[i].date = RawRecords[k].dateOfSleep})
                 = (IF HasMain(RawRecords[k].dateOfSleep) THEN 1 ELSE 0)
        /\ \A i, j \in 1..Len(Chart) : i < j => Chart[i].date < Chart[j].date

\* two main records of one date and a nap of another date, which has no
\* main record, were read, and the chart holds one record
OneRecordPerMainDateWitness ==
    /\ Built
    /\ Len(RawRecords) = 3
    /\ RawRecords[1].isMainSleep /\ RawRecords[2].isMainSleep
    /\ RawRecords[1].dateOfSleep = RawRecords[2].dateOfSleep
    /\ RawRecords[1].startTime # RawRecords[2].startTime
    /\ ~RawRecords[3].isMainSleep
    /\ RawRecords[3].dateOfSleep # RawRecords[1].dateOfSleep
    /\ Len(Chart) = 1

\* C2: a nap or fixup with endTime <= the main record's startTime pulls the
\* chart record's startTime back to the earlier of the two and its segments
\* carry no isNap; any other nap leaves startTime alone and all its segments
\* carry isNap = TRUE.  Over the whole group: startTime is the minimum of
\* the main record's and the pre-sleep records' startTimes, the segments
\* with isNap are exactly those of the other naps, the segments without
\* are exactly those of the main record and the pre-sleep records.
PreSleepOrNap ==
    Built =>
        \A c \in 1..Len(Chart) :
            LET e    == Chart[c]
                main == MainOf(e.date)
                pre  == PreSleepOf(e.date)
                naps == NapsOf(e.date) \ pre
            IN  /\ e.startTime =
                       MinOf({main.startTime} \cup {RawRecords[i].startTime : i \in pre})
                /\ BagOfSeq(SelectSeq(e.segments, LAMBDA g : "isNap" \in DOMAIN g))
                     = BagOfSeq(ExpectedSegmentsOf(naps, TRUE))
                /\ BagOfSeq(SelectSeq(e.segments, LAMBDA g : "isNap" \notin DOMAIN g))
                     = BagOfSeq(ExpectedSegments(main, FALSE)
                                \o ExpectedSegmentsOf(pre, FALSE))

\* a group with a record ending exactly at the main record's start and
\* another ending after it has been merged
PreSleepOrNapWitness ==
    /\ Built
    /\ \E c \in 1..Len(Chart) :
           LET main == MainOf(Chart[c].date)
           IN  /\ \E i \in NapsOf(Chart[c].date) :
                      RawRecords[i].endTime = main.startTime
               /\ \E i \in NapsOf(Chart[c].date) :
                      RawRecords[i].endTime > main.startTime
               /\ Chart[c].startTime < main.startTime
               /\ \E k \in 1..Len(Chart[c].segments) :
                      "isNap" \in DOMAIN Chart[c].segments[k]

\* the stage totals of a chart record: the main record's plus each nap's
\* and fixup's, each transformed (wake with its own terminal wake trimmed)
TotalsAdded(e) ==
    \A stage \in {"deep", "light", "rem", "wake"} :
        e[stage] = ExpectedStage(MainOf(e.date), stage)
                     + SumStage(NapsOf(e.date), stage)

\* C3 as stated: the totals are added, and the chart record's startTime is
\* the startTime of a nap that ends before the main record starts.
TotalsAndNapStart ==
    Built =>
        \A c \in 1..Len(Chart) :
            /\ TotalsAdded(Chart[c])
            /\ \A i \in NapsOf(Chart[c].date) :
                   RawRecords[i].endTime < MainOf(Chart[c].date).startTime
                       => Chart[c].startTime = RawRecords[i].startTime

\* C3 amended: the totals are added, and when naps end at or before the
\* main record's start the chart record's startTime is the earliest of
\* their startTimes and the main record's.
TotalsAndEarliestStart ==
    Built =>
        \A c \in 1..Len(Chart) :
            /\ TotalsAdded(Chart[c])
            /\ \A i \in PreSleepOf(Chart[c].date) :
                   Chart[c].startTime <= RawRecords[i].startTime
            /\ Chart[c].startTime <= MainOf(Chart[c].date).startTime
            /\ \/ Chart[c].startTime = MainOf(Chart[c].date).startTime
               \/ \E i \in PreSleepOf(Chart[c].date) :
                      Chart[c].startTime = RawRecords[i].startTime

\* a main record was merged with two records that end before it starts and
\* start at different times, one of them a fixup with a closing wake segment
TotalsAndEarliestStartWitness ==
    /\ Built
    /\ \E c \in 1..Len(Chart) :
           \E i, j \in NapsOf(Chart[c].date) :
               /\ RawRecords[i].endTime < MainOf(Chart[c].date).startTime
               /\ RawRecords[j].endTime < MainOf(Chart[c].date).startTime
               /\ RawRecords[i].startTime < RawRecords[j].startTime
               /\ "logType" \in DOMAIN RawRecords[i]
               /\ Chart[c].startTime = RawRecords[i].startTime
               /\ Chart[c].wake > ExpectedTrimmedWake(MainOf(Chart[c].date))

\* C6: the segments of every chart record are in ascending dateTime order
\* and are exactly the segments of the date's main record and of all its
\* naps and fixups: none lost, none twice.
SegmentsSortedAndComplete ==
    Built =>
        \A c \in 1..Len(Chart) :
            LET e == Chart[c]
                strip(g) == [dateTime |-> g.dateTime, seconds |-> g.seconds,
                             level |-> g.level]
            IN  /\ \A i, j \in 1..Len(e.segments) :
                       i < j => e.segments[i].dateTime <= e.segments[j].dateTime
                /\ BagOfSeq([k \in 1..Len(e.segments) |-> strip(e.segments[k])])
                     = BagOfSeq(ExpectedSegments(MainOf(e.date), FALSE)
                                \o ExpectedSegmentsOf(NapsOf(e.date), FALSE))

\* a main record was merged with a nap and a fixup that were read before
\* it, and the chart record holds the nine segments of the three
SegmentsSortedAndCompleteWitness ==
    /\ Built
    /\ Len(RawRecords) = 3
    /\ RawRecords[3].isMainSleep
    /\ ~RawRecords[1].isMainSleep /\ ~RawRecords[2].isMainSleep
    /\ RawRecords[1].startTime > RawRecords[2].startTime
    /\ Len(Chart) = 1
    /\ Len(Chart[1].segments) = 9

(***************************************************************************)
(* Inputs of build: activities.json and subjective.json                    *)
(***************************************************************************)

MaxAttach == 2

AttachSleepFiles ==
    {File(<<MainRecord(d, 2)>>) : d \in Dates}
    \cup {File(<<MainRecord(2, 2), NapRecord(1, 1), MainRecord(1, 3)>>)}

AttachActivities ==
    [startTime : StartTimes, activeDuration : {3600000}, distance : {8000, 8100},
     activityName : {"Run"}]

AttachRows ==
    {[date |-> d, data |-> <<"c", "9">>] : d \in Days}
    \cup {[date |-> 1, data |-> <<"x">>], [date |-> 0, data |-> <<"c", "9">>],
          [data |-> <<"c", "9">>]}

InitAttach ==
    /\ sleep_json \in AttachSleepFiles
    /\ fixups_json = NoFile
    /\ activities_json \in
           {NoFile} \cup {File(c) : c \in SeqsUpTo(AttachActivities, MaxAttach)}
    /\ subjective_json \in
           {NoFile} \cup {File(c) : c \in SeqsUpTo(AttachRows, MaxAttach)}
    /\ data_json = NoFile
    /\ pc = "build"
    /\ arg = None
    /\ ret = None
    /\ tokens_json = NoFile /\ locals = None /\ requests = <<>>

NextAttach == Build

SpecAttach == InitAttach /\ [][NextAttach]_vars

(***************************************************************************)
(* Claims about build: activities, runs, subjective                        *)
(***************************************************************************)

\* the processed activities of a date, in input order
ActivitiesOn(date) ==
    LET acts == activities_json.content
        on   == Pick(acts, {i \in 1..Len(acts) :
                               HasStart(acts[i]) /\ acts[i].startTime[1] = date})
    IN  [k \in 1..Len(on) |-> process_activity(on[k])[1]]

\* the parsed subjective row of a date: the last row with that date, or None
SubjectiveOn(date) ==
    LET rows == subjective_json.content
        on   == {i \in 1..Len(rows) : "date" \in DOMAIN rows[i] /\ rows[i].date = date}
    IN  IF on = {} THEN None
        ELSE Some(parse_subjective(rows[CHOOSE i \in on : \A j \in on : j <= i]))

\* the attachments of a chart record whose files are there
AttachedFrom(e) ==
    /\ activities_json.exists =>
           /\ "activities" \in DOMAIN e /\ "runs" \in DOMAIN e
           /\ e.activities = ActivitiesOn(e.date)
           /\ e.runs = SelectSeq(ActivitiesOn(e.date), LAMBDA a : a.speed > RunSpeed * 10)
    /\ subjective_json.exists =>
           /\ "subjective" \in DOMAIN e
           /\ e.subjective = SubjectiveOn(e.date)

\* C7 as stated: every chart record carries activities and runs, lists that
\* default to empty, and subjective that defaults to absent or null,
\* whichever of activities.json and subjective.json exist.
AlwaysAttached ==
    Built =>
        \A c \in 1..Len(Chart) :
            LET e == Chart[c]
            IN  /\ AttachedFrom(e)
                /\ "activities" \in DOMAIN e /\ "runs" \in DOMAIN e
                /\ ~activities_json.exists => e.activities = <<>> /\ e.runs = <<>>
                /\ ~subjective_json.exists =>
                       "subjective" \notin DOMAIN e \/ e.subjective = None

\* C7 amended: with activities.json present every chart record carries the
\* activities and runs of its date (empty lists by default); without the
\* file it carries neither key.  With subjective.json present it carries
\* the parsed row of its date (null by default); without the file it
\* carries no subjective key.
AttachedWhenFilePresent ==
    Built =>
        \A c \in 1..Len(Chart) :
            LET e == Chart[c]
            IN  /\ AttachedFrom(e)
                /\ ~activities_json.exists =>
                       "activities" \notin DOMAIN e /\ "runs" \notin DOMAIN e
                /\ ~subjective_json.exists => "subjective" \notin DOMAIN e

\* two dates were charted with both files present: one date got an activity
\* that is no run and a subjective row, the other got the defaults
AttachedWhenFilePresentWitness ==
    /\ Built
    /\ activities_json.exists /\ subjective_json.exists
    /\ Len(Chart) = 2
    /\ Len(Chart[1].activities) = 1 /\ Chart[1].runs = <<>>
    /\ Chart[1].subjective # None
    /\ Chart[2].activities = <<>> /\ Chart[2].runs = <<>>
    /\ Chart[2].subjective = None
    /\ Len(activities_json.content) = 2

(***************************************************************************)
(* generate_fixup_segments                                                 *)
(*                                                                         *)
(* Here an ISO timestamp "YYYY-MM-DDTHH:MM:SS.000" is the tuple            *)
(* <<date, HH, MM, SS>> (date a day number) and a datetime is a number of  *)
(* seconds; fromisoformat and strftime convert between the two.  The       *)
(* random module is a free choice among the outcomes it can return.        *)
(***************************************************************************)

SecPerHour == SecPerMin * SecPerMin
SecPerDay == 24 * SecPerHour

\* datetime.fromisoformat(t.replace(".000", ""))
fromisoformat(t) == t[1] * SecPerDay + t[2] * SecPerHour + t[3] * SecPerMin + t[4]

\* dt.strftime("%Y-%m-%dT%H:%M:%S.000")
strftime(dt) ==
    <<dt \div SecPerDay, (dt % SecPerDay) \div SecPerHour,
      (dt % SecPerHour) \div SecPerMin, dt % SecPerMin>>

\* dt.hour
hour(dt) == (dt % SecPerDay) \div SecPerHour

\* dt.strftime("%Y-%m-%d")
strftime_date(dt) == dt \div SecPerDay

\* int((end_dt - start_dt).total_seconds())
total_seconds(start_time, end_time) == fromisoformat(end_time) - fromisoformat(start_time)

\* the keys of stage_minutes, durations_by_stage and weights, in dict order
Stages == <<"deep", "light", "rem", "wake">>

\* reference_record.get("levels", {})
levels_of(reference_record) == dict_get(reference_record, "levels", <<>>)

\* summary.get(stage, {}).get("minutes", 0)
stage_minutes(reference_record, stage) ==
    dict_get(dict_get(dict_get(levels_of(reference_record), "summary", <<>>),
                      stage, <<>>),
             "minutes", 0)

RECURSIVE SumSeq(_)
SumSeq(s) == IF s = <<>> THEN 0 ELSE s[1] + SumSeq(Tail(s))

\* sum(stage_minutes.values()) or 1
total_minutes(reference_record) ==
    LET total == SumSeq([i \in 1..Len(Stages) |-> stage_minutes(reference_record, Stages[i])])
    IN  IF total = 0 THEN 1 ELSE total

\* seg.get("seconds", 60)
DefaultSeconds == 60

defaults ==
    [deep |-> <<300, 600, 900>>, light |-> <<180, 360, 600>>,
     rem |-> <<300, 600>>, wake |-> <<60, 180, 300>>]

RECURSIVE observed_durations(_, _)
observed_durations(ref_segments, stage) ==
    IF ref_segments = <<>> THEN <<>>
    ELSE LET seg == Head(ref_segments)
         IN  (IF dict_get(seg, "level", None) = stage
              THEN <<dict_get(seg, "seconds", DefaultSeconds)>>
              ELSE <<>>)
             \o observed_durations(Tail(ref_segments), stage)

\* durations_by_stage[stage], after the fallback to the defaults
durations_by_stage(reference_record, stage) ==
    LET observed == observed_durations(
                        dict_get(levels_of(reference_record), "data", <<>>), stage)
    IN  IF observed = <<>> THEN defaults[stage] ELSE observed

\* The weights of one iteration, each multiplied by 10 * total_minutes so
\* that they stay integers: stage_proportions[stage] is
\* stage_minutes / total_minutes, and the factors are 1.5, 0.5, 1 and 0.3.
\* elapsed_ratio < 0.5 is 1 - remaining / total < 0.5.
weight(reference_record, stage, remaining_seconds, total) ==
    LET first_half == 2 * remaining_seconds > total
        factor == CASE stage = "deep" -> IF first_half THEN 15 ELSE 5
                    [] stage = "rem"  -> IF first_half THEN 5 ELSE 15
                    [] stage = "wake" -> 3
                    [] OTHER          -> 10
    IN  stage_minutes(reference_record, stage) * factor

total_weight(reference_record, remaining_seconds, total) ==
    SumSeq([i \in 1..Len(Stages) |->
               weight(reference_record, Stages[i], remaining_seconds, total)])

\* the stages random.choices can return: those of positive weight
choices(reference_record, remaining_seconds, total) ==
    {Stages[i] : i \in {j \in 1..Len(Stages) :
                          weight(reference_record, Stages[j], remaining_seconds, total) > 0}}

\* "Minimum 30 seconds": the loop guard, the floor of a duration and the
\* floor of the closing wake segment
MinSeconds == 30

\* the cap of the closing wake segment
MaxClosingWake == 180

Min(a, b) == IF a <= b THEN a ELSE b

\* min(duration, remaining_seconds), then max(30, duration)
clip(duration, remaining_seconds) == Max(MinSeconds, Min(duration, remaining_seconds))

\* one iteration of the while loop, for the stage and the duration drawn
loop_body(l, stage, duration) ==
    LET d == clip(duration, l.remaining_seconds)
    IN  [segments          |-> Append(l.segments, Seg(strftime(l.current_dt), stage, d)),
         current_dt        |-> l.current_dt + d,
         remaining_seconds |-> l.remaining_seconds - d]

\* "End with a wake segment"
closing_wake(l) ==
    IF l.segments # <<>> /\ l.segments[Len(l.segments)].level # "wake"
    THEN Append(l.segments,
                Seg(strftime(l.current_dt), "wake",
                    Min(MaxClosingWake, Max(MinSeconds, l.remaining_seconds))))
    ELSE l.segments

\* generated_summary[level]: the sum of seconds // 60 over the segments
generated_minutes(segments, level) ==
    SumSeq([i \in 1..Len(segments) |->
               IF segments[i].level = level THEN segments[i].seconds \div SecPerMin ELSE 0])

count_level(segments, level) ==
    Cardinality({i \in 1..Len(segments) : segments[i].level = level})

date_of_sleep(end_dt) ==
    IF hour(end_dt) < 12 THEN strftime_date(end_dt)
    ELSE IF hour(end_dt) >= 18 THEN strftime_date(end_dt + SecPerDay)
         ELSE strftime_date(end_dt)

\* the record returned, for the segments generated
fixup_record(reference_record, start_time, end_time, comment, segments) ==
    LET entry(level) == [count |-> count_level(segments, level),
                         minutes |-> generated_minutes(segments, level),
                         thirtyDayAvgMinutes |-> 0]
    IN  [dateOfSleep |-> date_of_sleep(fromisoformat(end_time)),
         duration |-> total_seconds(start_time, end_time) * 1000,
         efficiency |-> dict_get(reference_record, "efficiency", 85),
         startTime |-> start_time,
         endTime |-> end_time,
         infoCode |-> 0,
         isMainSleep |-> FALSE,
         levels |-> [data |-> segments,
                     shortData |-> <<>>,
                     summary |-> [deep |-> entry("deep"), light |-> entry("light"),
                                  rem |-> entry("rem"), wake |-> entry("wake")]],
         logId |-> None,
         minutesAfterWakeup |-> 0,
         minutesAwake |-> generated_minutes(segments, "wake"),
         minutesAsleep |-> generated_minutes(segments, "deep")
                           + generated_minutes(segments, "light")
                           + generated_minutes(segments, "rem"),
         minutesToFallAsleep |-> 0,
         logType |-> "manual_fixup",
         timeInBed |-> total_seconds(start_time, end_time) \div SecPerMin,
         type |-> "stages",
         comment |-> comment]

\* the call: times parsed, segments = [], current_dt = start_dt
GenerateEnter ==
    /\ pc = "generate_fixup_segments"
    /\ locals' = [segments          |-> <<>>,
                  current_dt        |-> fromisoformat(arg.start_time),
                  remaining_seconds |-> total_seconds(arg.start_time, arg.end_time)]
    /\ pc' = "while"
    /\ UNCHANGED <<sleep_json, fixups_json, activities_json, subjective_json,
                   data_json, arg, ret, tokens_json, requests>>

\* one iteration: random.choices draws a stage, random.choice a duration
GenerateIterate ==
    /\ pc = "while"
    /\ locals.remaining_seconds > MinSeconds
    /\ LET total == total_seconds(arg.start_time, arg.end_time)
       IN  /\ total_weight(arg.reference_record, locals.remaining_seconds, total) # 0
           /\ \E stage \in choices(arg.reference_record, locals.remaining_seconds, total) :
                  \E k \in 1..Len(durations_by_stage(arg.reference_record, stage)) :
                      locals' = loop_body(locals, stage,
                                          durations_by_stage(arg.reference_record, stage)[k])
    /\ UNCHANGED <<sleep_json, fixups_json, activities_json, subjective_json,
                   data_json, pc, arg, ret, tokens_json, requests>>

\* w / total_weight with total_weight = 0.0: ZeroDivisionError
GenerateRaise ==
    /\ pc = "while"
    /\ locals.remaining_seconds > MinSeconds
    /\ total_weight(arg.reference_record, locals.remaining_seconds,
                    total_seconds(arg.start_time, arg.end_time)) = 0
    /\ pc' = "raised"
    /\ UNCHANGED <<sleep_json, fixups_json, activities_json, subjective_json,
                   data_json, arg, ret, tokens_json, locals, requests>>

\* the loop is left: closing wake segment, summary, the record
GenerateReturn ==
    /\ pc = "while"
    /\ locals.remaining_seconds <= MinSeconds
    /\ ret' = Some(fixup_record(arg.reference_record, arg.start_time, arg.end_time,
                                arg.comment, closing_wake(locals)))
    /\ pc' = "done"
    /\ UNCHANGED <<sleep_json, fixups_json, activities_json, subjective_json,
                   data_json, arg, tokens_json, locals, requests>>

NextGenerate == GenerateEnter \/ GenerateIterate \/ GenerateRaise \/ GenerateReturn

(***************************************************************************)
(* Inputs of generate_fixup_segments                                       *)
(***************************************************************************)

\* windows of 10, 20, ... seconds
MaxWindow == 13

Windows == {10 * k : k \in 1..MaxWindow}

\* just before midnight, just before noon, just before 18:00
WindowStarts == {<<1, 23, 59, 20>>, <<1, 11, 58, 50>>, <<1, 17, 59, 0>>}

References ==
    { \* every stage slept, no data segments: the default durations
      [efficiency |-> 90,
       levels |-> [summary |-> [deep |-> M(60), light |-> M(200), rem |-> M(80),
                                wake |-> M(40)],
                   data |-> <<>>]],
      \* light and wake only, short segments, one without seconds, one of
      \* a level that is no stage
      [levels |-> [summary |-> [deep |-> M(0), light |-> M(30), wake |-> M(5)],
                   data |-> <<Seg(0, "light", 40), Seg(1, "wake", 20),
                              [dateTime |-> 2, level |-> "light"],
                              Seg(3, "restless", 10), Seg(4, "light", 70)>>]],
      \* a summary of zero minutes
      [levels |-> [summary |-> [deep |-> M(0), light |-> M(0), rem |-> M(0),
                                wake |-> M(0)],
                   data |-> <<Seg(0, "light", 40)>>]],
      \* a classic record: no deep, light, rem or wake in the summary
      [levels |-> [summary |-> [asleep |-> M(30), awake |-> M(2), restless |-> M(3)],
                   data |-> <<Seg(0, "asleep", 1800)>>]],
      \* no levels at all
      [efficiency |-> 70] }

InitGenerate ==
    /\ sleep_json = NoFile /\ fixups_json = NoFile
    /\ activities_json = NoFile /\ subjective_json = NoFile
    /\ data_json = NoFile
    /\ pc = "generate_fixup_segments"
    /\ arg \in { [reference_record |-> r, start_time |-> s,
                  end_time |-> strftime(fromisoformat(s) + w), comment |-> <<>>] :
                    r \in References, s \in WindowStarts, w \in Windows }
    /\ ret = None
    /\ tokens_json = NoFile /\ locals = None /\ requests = <<>>

SpecGenerate == InitGenerate /\ [][NextGenerate]_vars

(***************************************************************************)
(* Claims about generate_fixup_segments                                    *)
(***************************************************************************)

Generated == pc = "done"
Segments == ret[1].levels.data
WindowSeconds == total_seconds(arg.start_time, arg.end_time)

RECURSIVE SumSeconds(_)
SumSeconds(segments) ==
    IF segments = <<>> THEN 0 ELSE Head(segments).seconds + SumSeconds(Tail(segments))

\* the segments start at start_time and each starts where the previous ends
Contiguous(segments, start_time) ==
    \A i \in 1..Len(segments) :
        segments[i].dateTime =
            strftime(fromisoformat(start_time) + SumSeconds(SubSeq(segments, 1, i - 1)))

\* C11: the segments of the returned record cover exactly the window: the
\* first starts at start_time, each next one starts where the previous one
\* ends, and the durations sum to end - start, so that the last segment
\* (the closing wake segment included) ends exactly at end_time.
SegmentsCoverWindow ==
    Generated =>
        /\ Segments # <<>>
        /\ Contiguous(Segments, arg.start_time)
        /\ SumSeconds(Segments) = WindowSeconds

\* What the code does keep: the segments are contiguous from start_time,
\* the loop's own segments never pass end_time, and the record ends at most
\* MinSeconds before or after end_time.
SegmentsNearWindow ==
    /\ pc \in {"while", "raised"} =>
           /\ Contiguous(locals.segments, arg.start_time)
           /\ SumSeconds(locals.segments) + locals.remaining_seconds = WindowSeconds
           /\ locals.remaining_seconds >= 0
    /\ Generated =>
           /\ Contiguous(Segments, arg.start_time)
           /\ SumSeconds(Segments) - WindowSeconds \in (0 - MinSeconds)..MinSeconds

\* a window that the closing wake segment overruns
SegmentsNearWindowWitness ==
    /\ Generated
    /\ Len(Segments) = 3
    /\ SumSeconds(Segments) = WindowSeconds + MinSeconds
    /\ Segments[3].dateTime[1] = 2

\* The loop as the code runs it: every segment appended took at least
\* MinSeconds off the remaining time, which never went below zero, and no
\* iteration started with MinSeconds or less remaining; the record returned
\* ends with a wake segment.
LoopProgress ==
    /\ pc \in {"while", "done", "raised"} =>
           /\ locals.remaining_seconds >= 0
           /\ SumSeconds(locals.segments) + locals.remaining_seconds = WindowSeconds
           /\ \A i \in 1..Len(locals.segments) :
                  /\ locals.segments[i].seconds >= MinSeconds
                  /\ WindowSeconds - SumSeconds(SubSeq(locals.segments, 1, i - 1))
                       > MinSeconds
    /\ Generated =>
           /\ locals.remaining_seconds <= MinSeconds
           /\ Segments # <<>>
           /\ Segments[Len(Segments)].level = "wake"

\* C13: for every reference record and every window longer than 30 seconds
\* generate_fixup_segments returns a record (it never ends by raising):
\* each iteration reduces the remaining time by at least 30 seconds, the
\* remaining time never becomes negative, the loop stops once it is 30
\* seconds or less, and the last segment returned is a wake segment.
ReturnsRecordEndingInWake ==
    WindowSeconds > MinSeconds =>
        /\ pc # "raised"
        /\ LoopProgress

\* the same for the references that have deep, light, rem or wake minutes
ReturnsRecordGivenMinutes ==
    WindowSeconds > MinSeconds =>
        /\ pc = "raised" =>
               \A i \in 1..Len(Stages) : stage_minutes(arg.reference_record, Stages[i]) = 0
        /\ LoopProgress

\* a closing wake segment was appended after two segments of default
\* durations, the second clipped to the time remaining
ReturnsRecordGivenMinutesWitness ==
    /\ Generated
    /\ Len(Segments) = 3
    /\ Len(locals.segments) = 2
    /\ Segments[1].level = "wake" /\ Segments[1].seconds = 60
    /\ Segments[2].level = "rem" /\ Segments[2].seconds = 70
    /\ arg.reference_record.levels.data = <<>>

(***************************************************************************)
(* fetch_sleep_data, fetch_activities, dump and sync                       *)
(*                                                                         *)
(* tokens.json holds one dict, [access_token, refresh_token]; tokens are   *)
(* numbers.  An entry of requests is a request with its outcome:           *)
(*   [method |-> "GET", token |-> the bearer token, status |-> s] or       *)
(*   [method |-> "POST", token |-> the refresh token, status |-> s,        *)
(*    tokens |-> the token dict in the response].                          *)
(* Status NoResponse is a request that raised instead of answering (no     *)
(* connection, or refresh_access_token without client credentials).        *)
(* locals holds the variables of the command (command, tokens) and of the  *)
(* fetch function it is in (call, access_token, refresh_token, new_tokens, *)
(* response); call_from is the length of requests when the call began.     *)
(***************************************************************************)

NoResponse == 0
Unauthorized == 401

Tokens(n) == [access_token |-> n, refresh_token |-> n]

\* the token response to a refresh: a new pair of tokens
refreshed(refresh_token) == Tokens(refresh_token + 1)

\* response.raise_for_status() passes
is_success(status) == status \div 100 = 2

\* what the servers may answer
GetStatuses == {NoResponse, 200, Unauthorized, 500}
PostStatuses == {NoResponse, 200, 400}

\* response.json() of a data request, by endpoint
Bodies(call) ==
    IF call = "fetch_sleep_data"
    THEN {<<>>, [sleep |-> <<MainRecord(1, 2)>>]}
    ELSE {<<>>, [activities |-> <<[activityName |-> "Run", distance |-> 5000]>>]}

\* response.json().get("sleep", []) / .get("activities", [])
payload(call, body) ==
    IF call = "fetch_sleep_data" THEN dict_get(body, "sleep", <<>>)
    ELSE dict_get(body, "activities", <<>>)

Frame(command, tokens) ==
    [command |-> command, tokens |-> tokens, call |-> "", access_token |-> 0,
     refresh_token |-> 0, new_tokens |-> None, response |-> None, call_from |-> 0]

\* where a fetch function returns to
return_to(l) ==
    CASE l.command = "dump" -> "dump_fetched"
      [] l.command = "sync" /\ l.call = "fetch_sleep_data" -> "sync_sleep_fetched"
      [] l.command = "sync" /\ l.call = "fetch_activities" -> "sync_activities_fetched"
      [] OTHER -> "done"

\* the bearer token of the retried GET: the access token just issued
retry_token_stale(l, new_tokens) == l.access_token

retry_token(l, new_tokens) == new_tokens.access_token

\* save_tokens_if_refreshed(new_tokens) and sync's own "if new_tokens:"
save_tokens_if_refreshed(file, new_tokens) ==
    IF new_tokens # None THEN File(new_tokens[1]) ELSE file

\* fetch_sleep_data(access_token, tokens, days) / fetch_activities(...) is
\* entered: new_tokens = None, no result yet
FetchEnter ==
    /\ pc \in {"fetch_sleep_data", "fetch_activities"}
    /\ locals' = [locals EXCEPT !.call = pc,
                                !.access_token = arg.access_token,
                                !.refresh_token = arg.tokens.refresh_token,
                                !.new_tokens = None,
                                !.response = None,
                                !.call_from = Len(requests)]
    /\ ret' = None
    /\ pc' = "get"
    /\ UNCHANGED <<sleep_json, fixups_json, activities_json, subjective_json,
                   data_json, arg, tokens_json, requests>>

\* response = _get_with_auth(url, access_token)
FirstGet ==
    /\ pc = "get"
    /\ \E status \in GetStatuses :
        \E body \in IF is_success(status) THEN Bodies(locals.call) ELSE {<<>>} :
           /\ requests' = Append(requests, [method |-> "GET",
                                            token |-> locals.access_token,
                                            status |-> status])
           /\ locals' = [locals EXCEPT !.response = Some([status |-> status, body |-> body])]
           /\ pc' = CASE status = NoResponse -> "raised"
                      [] status = Unauthorized -> "refresh"
                      [] OTHER -> "raise_for_status"
    /\ UNCHANGED <<sleep_json, fixups_json, activities_json, subjective_json,
                   data_json, arg, ret, tokens_json>>

\* new_tokens = refresh_access_token(tokens["refresh_token"]), which raises
\* unless the token endpoint answers 2xx; access_token = new_tokens[...]
Refresh ==
    /\ pc = "refresh"
    /\ \E status \in PostStatuses :
           LET new_tokens == refreshed(locals.refresh_token)
           IN  /\ requests' = Append(requests, [method |-> "POST",
                                                token |-> locals.refresh_token,
                                                status |-> status,
                                                tokens |-> new_tokens])
               /\ IF is_success(status)
                  THEN /\ locals' = [locals EXCEPT
                                        !.new_tokens = Some(new_tokens),
                                        !.access_token = retry_token(locals, new_tokens)]
                       /\ pc' = "retry"
                  ELSE /\ pc' = "raised"
                       /\ UNCHANGED locals
    /\ UNCHANGED <<sleep_json, fixups_json, activities_json, subjective_json,
                   data_json, arg, ret, tokens_json>>

\* response = _get_with_auth(url, access_token), the second time
RetryGet ==
    /\ pc = "retry"
    /\ \E status \in GetStatuses :
        \E body \in IF is_success(status) THEN Bodies(locals.call) ELSE {<<>>} :
           /\ requests' = Append(requests, [method |-> "GET",
                                            token |-> locals.access_token,
                                            status |-> status])
           /\ locals' = [locals EXCEPT !.response = Some([status |-> status, body |-> body])]
           /\ pc' = IF status = NoResponse THEN "raised" ELSE "raise_for_status"
    /\ UNCHANGED <<sleep_json, fixups_json, activities_json, subjective_json,
                   data_json, arg, ret, tokens_json>>

\* response.raise_for_status(); return response.json().get(...), new_tokens
RaiseForStatus ==
    /\ pc = "raise_for_status"
    /\ IF is_success(locals.response[1].status)
       THEN /\ ret' = Some([data |-> payload(locals.call, locals.response[1].body),
                            new_tokens |-> locals.new_tokens])
            /\ pc' = return_to(locals)
       ELSE /\ pc' = "raised"
            /\ UNCHANGED ret
    /\ UNCHANGED <<sleep_json, fixups_json, activities_json, subjective_json,
                   data_json, arg, tokens_json, locals, requests>>

\* dump, through get_sleep_data: exit 1 without tokens.json, else the fetch
DumpStart ==
    /\ pc = "dump"
    /\ IF ~tokens_json.exists
       THEN /\ pc' = "exit_1"
            /\ UNCHANGED <<arg, locals>>
       ELSE /\ locals' = Frame("dump", tokens_json.content)
            /\ arg' = [access_token |-> tokens_json.content.access_token,
                       tokens |-> tokens_json.content]
            /\ pc' = "fetch_sleep_data"
    /\ UNCHANGED <<sleep_json, fixups_json, activities_json, subjective_json,
                   data_json, ret, tokens_json, requests>>

\* dump after the fetch: save_tokens_if_refreshed, the data to stdout
DumpFetched ==
    /\ pc = "dump_fetched"
    /\ tokens_json' = save_tokens_if_refreshed(tokens_json, ret[1].new_tokens)
    /\ pc' = "done"
    /\ UNCHANGED <<sleep_json, fixups_json, activities_json, subjective_json,
                   data_json, arg, ret, locals, requests>>

\* sync: exit 1 without tokens.json, else the sleep fetch
SyncStart ==
    /\ pc = "sync"
    /\ IF ~tokens_json.exists
       THEN /\ pc' = "exit_1"
            /\ UNCHANGED <<arg, locals>>
       ELSE /\ locals' = Frame("sync", tokens_json.content)
            /\ arg' = [access_token |-> tokens_json.content.access_token,
                       tokens |-> tokens_json.content]
            /\ pc' = "fetch_sleep_data"
    /\ UNCHANGED <<sleep_json, fixups_json, activities_json, subjective_json,
                   data_json, ret, tokens_json, requests>>

\* sync after the sleep fetch: tokens = new_tokens and tokens.json written
\* if there are new tokens, sleep.json written, the activities fetch called
SyncSleepFetched ==
    /\ pc = "sync_sleep_fetched"
    /\ LET new_tokens == ret[1].new_tokens
           tokens == IF new_tokens # None THEN new_tokens[1] ELSE locals.tokens
       IN  /\ tokens_json' = save_tokens_if_refreshed(tokens_json, new_tokens)
           /\ sleep_json' = File(ret[1].data)
           /\ locals' = [locals EXCEPT !.tokens = tokens]
           /\ arg' = [access_token |-> tokens.access_token, tokens |-> tokens]
    /\ pc' = "fetch_activities"
    /\ UNCHANGED <<fixups_json, activities_json, subjective_json, data_json, ret,
                   requests>>

\* sync after the activities fetch: save_tokens_if_refreshed,
\* activities.json written
SyncActivitiesFetched ==
    /\ pc = "sync_activities_fetched"
    /\ tokens_json' = save_tokens_if_refreshed(tokens_json, ret[1].new_tokens)
    /\ activities_json' = File(ret[1].data)
    /\ pc' = "sync_sheet"
    /\ UNCHANGED <<sleep_json, fixups_json, subjective_json, data_json, arg, ret,
                   locals, requests>>

\* sync, the sheet: skipped without Google credentials, else
\* fetch_sheet_data raises or its rows are written to subjective.json
SyncSheet ==
    /\ pc = "sync_sheet"
    /\ \/ pc' = "done" /\ UNCHANGED subjective_json
       \/ pc' = "raised" /\ UNCHANGED subjective_json
       \/ \E sheet_data \in {<<>>, <<[date |-> 1, data |-> <<"8">>]>>} :
              pc' = "done" /\ subjective_json' = File(sheet_data)
    /\ UNCHANGED <<sleep_json, fixups_json, activities_json, data_json, arg, ret,
                   tokens_json, locals, requests>>

NextSync ==
    \/ FetchEnter \/ FirstGet \/ Refresh \/ RetryGet \/ RaiseForStatus
    \/ DumpStart \/ DumpFetched
    \/ SyncStart \/ SyncSleepFetched \/ SyncActivitiesFetched \/ SyncSheet

\* a command with or without tokens.json, or one fetch function called with
\* an access token that is or is not the one of its tokens
InitSync ==
    /\ sleep_json = NoFile /\ fixups_json = NoFile
    /\ activities_json = NoFile /\ subjective_json = NoFile
    /\ data_json = NoFile
    /\ ret = None
    /\ requests = <<>>
    /\ \/ /\ pc \in {"sync", "dump"}
          /\ tokens_json \in {NoFile, File(Tokens(1))}
          /\ arg = None
          /\ locals = None
       \/ /\ pc \in {"fetch_sleep_data", "fetch_activities"}
          /\ tokens_json = File(Tokens(1))
          /\ arg \in [access_token : {0, 1}, tokens : {Tokens(1)}]
          /\ locals = Frame("", arg.tokens)

SpecSync == InitSync /\ [][NextSync]_vars

(***************************************************************************)
(* Claims about the fetch functions, dump and sync                         *)
(***************************************************************************)

\* a fetch function has been entered (and may be over), and arg still
\* holds its arguments
Called == pc \notin {"sync", "dump", "exit_1", "fetch_sleep_data", "fetch_activities"}

InCall == pc \in {"get", "refresh", "retry", "raise_for_status"}

\* the requests of the call entered last, and those made before it
CallRequests == SubSeq(requests, locals.call_from + 1, Len(requests))
EarlierRequests == SubSeq(requests, 1, locals.call_from)

CountMethod(log, method) == Cardinality({i \in 1..Len(log) : log[i].method = method})

\* C12: in a call of fetch_sleep_data or fetch_activities, whatever the
\* servers answer: the first GET carries the access token passed in; after
\* a 401 on it comes exactly one refresh (with the refresh token passed in)
\* and, the refresh done, exactly one retried GET with the refreshed access
\* token; a first response other than 401 is followed by no refresh and no
\* retry; there are never more than two GETs or more than one refresh; a
\* final response that is not 2xx, or a failed refresh, ends the call
\* raising, and a data result comes only from a 2xx final response.
RefreshOnceRetryOnce ==
    Called =>
        LET L == CallRequests
            n == Len(L)
        IN  /\ CountMethod(L, "GET") <= 2 /\ CountMethod(L, "POST") <= 1
            /\ n >= 1 =>
                   /\ L[1].method = "GET" /\ L[1].token = arg.access_token
                   /\ L[1].status # Unauthorized => n = 1
                   /\ (L[1].status = Unauthorized /\ pc # "refresh") =>
                          /\ n >= 2
                          /\ L[2].method = "POST"
                          /\ L[2].token = arg.tokens.refresh_token
            /\ n >= 2 =>
                   IF is_success(L[2].status)
                   THEN pc # "retry" =>
                            /\ n = 3
                            /\ L[3].method = "GET"
                            /\ L[3].token = L[2].tokens.access_token
                   ELSE n = 2 /\ pc = "raised" /\ ret = None
            /\ (~InCall /\ n >= 1 /\ ~is_success(L[n].status)) =>
                   pc = "raised" /\ ret = None
            /\ ret # None =>
                   /\ n \in {1, 3}
                   /\ is_success(L[n].status)
                   /\ ret[1].new_tokens =
                          IF n = 3 THEN Some(L[2].tokens) ELSE None

\* the activities fetch of sync got 401, refreshed, retried and returned
\* the activities it was sent
RefreshOnceRetryOnceWitness ==
    /\ Called /\ ~InCall
    /\ locals.command = "sync" /\ locals.call = "fetch_activities"
    /\ Len(CallRequests) = 3
    /\ CallRequests[1].status = Unauthorized
    /\ CallRequests[3].token # CallRequests[1].token
    /\ ret # None
    /\ ret[1].data # <<>>

\* the command is over, normally or by an exception
Ended == pc \in {"done", "raised"} /\ locals.command \in {"sync", "dump"}

Exchanged(log) == {i \in 1..Len(log) : log[i].method = "POST" /\ is_success(log[i].status)}

\* the access token sync holds when it calls fetch_activities: the one of
\* the refresh made during the sleep fetch, or the one of tokens.json
ExpectedActivitiesToken ==
    IF Exchanged(EarlierRequests) = {} THEN Tokens(1).access_token
    ELSE EarlierRequests[CHOOSE i \in Exchanged(EarlierRequests) :
                             \A j \in Exchanged(EarlierRequests) : j <= i].tokens.access_token

ActivitiesFetchUsesRefreshedToken ==
    (Called /\ locals.command = "sync" /\ locals.call = "fetch_activities"
        /\ CallRequests # <<>>) =>
            CallRequests[1].token = ExpectedActivitiesToken

\* C15: when sync or dump ends, however it ends, every token refresh that
\* succeeded has been written to tokens.json: the file holds the tokens of
\* the last refresh and no refresh token that was already exchanged; and
\* the activities fetch of sync uses the access token of a refresh made
\* during the sleep fetch.
RefreshedTokensSaved ==
    /\ Ended =>
           \A i \in Exchanged(requests) :
               /\ tokens_json.content.refresh_token # requests[i].token
               /\ (\A j \in Exchanged(requests) : j <= i) =>
                      tokens_json.content = requests[i].tokens
    /\ ActivitiesFetchUsesRefreshedToken

\* What the code does keep: the same when the command ends normally, or
\* when every fetch that refreshed also returned.
RefreshedTokensSavedOnReturn ==
    /\ (Ended /\ (pc = "done" \/ ret # None)) =>
           \A i \in Exchanged(requests) :
               /\ tokens_json.content.refresh_token # requests[i].token
               /\ (\A j \in Exchanged(requests) : j <= i) =>
                      tokens_json.content = requests[i].tokens
    /\ ActivitiesFetchUsesRefreshedToken

\* sync refreshed in both fetches and ended normally
RefreshedTokensSavedOnReturnWitness ==
    /\ Ended /\ pc = "done"
    /\ locals.command = "sync"
    /\ Cardinality(Exchanged(requests)) = 2
    /\ Len(requests) = 6
    /\ tokens_json.content = Tokens(3)

(***************************************************************************)
(* fixup                                                                   *)
(*                                                                         *)
(* The arguments start and end ("HH:MM") are pairs <<HH, MM>>; a comment   *)
(* is a tuple of its parts, the empty comment <<>>.  The random draws of   *)
(* one invocation are a sequence of pairs of numbers, read round and       *)
(* round: the first number of a pair selects the stage among those         *)
(* random.choices can return, the second the duration in the stage's list. *)
(***************************************************************************)

stage_drawn(reference_record, remaining_seconds, total, u) ==
    LET positive(stage) == weight(reference_record, stage, remaining_seconds, total) > 0
        c == SelectSeq(Stages, positive)
    IN  c[(u % Len(c)) + 1]

duration_drawn(reference_record, stage, v) ==
    LET d == durations_by_stage(reference_record, stage)
    IN  d[(v % Len(d)) + 1]

\* the while loop of generate_fixup_segments, run to its end
RECURSIVE while_loop(_, _, _, _, _)
while_loop(reference_record, total, l, draws, i) ==
    IF l.remaining_seconds <= MinSeconds THEN l
    ELSE LET draw == draws[((i - 1) % Len(draws)) + 1]
             stage == stage_drawn(reference_record, l.remaining_seconds, total, draw[1])
         IN  while_loop(reference_record, total,
                        loop_body(l, stage, duration_drawn(reference_record, stage, draw[2])),
                        draws, i + 1)

\* the call raises ZeroDivisionError: the loop is entered with no weight
generate_raises(reference_record, start_time, end_time) ==
    LET total == total_seconds(start_time, end_time)
    IN  total > MinSeconds /\ total_weight(reference_record, total, total) = 0

\* generate_fixup_segments(reference_record, start_time, end_time, comment)
\* when it returns, for the draws made
generate_fixup_segments(reference_record, start_time, end_time, comment, draws) ==
    LET total == total_seconds(start_time, end_time)
        l == while_loop(reference_record, total,
                        [segments          |-> <<>>,
                         current_dt        |-> fromisoformat(start_time),
                         remaining_seconds |-> total],
                        draws, 1)
    IN  fixup_record(reference_record, start_time, end_time, comment, closing_wake(l))

\* the first record of sleep_raw with dateOfSleep == date and isMainSleep
find_reference(sleep_raw, date) ==
    LET hits == {i \in 1..Len(sleep_raw) :
                    /\ "dateOfSleep" \in DOMAIN sleep_raw[i]
                    /\ sleep_raw[i].dateOfSleep = date
                    /\ is_main(sleep_raw[i])}
    IN  IF hits = {} THEN None
        ELSE Some(sleep_raw[CHOOSE i \in hits : \A j \in hits : i <= j])

\* "evening times (>=18:00) are the night before"
EveningHour == 18

start_date_of(date, start) == IF start[1] >= EveningHour THEN date - 1 ELSE date

\* the same for end, then "if end appears before start, end is next day"
end_date_of(date, start, end) ==
    LET end_date == IF end[1] >= EveningHour THEN date - 1 ELSE date
        start_time_obj == fromisoformat(<<start_date_of(date, start), start[1], start[2], 0>>)
        end_time_obj == fromisoformat(<<end_date, end[1], end[2], 0>>)
    IN  IF end_time_obj <= start_time_obj THEN end_date + 1 ELSE end_date

\* f"{start_date}T{start}:00.000" and f"{end_date}T{end}:00.000"
start_time_of(date, start) == <<start_date_of(date, start), start[1], start[2], 0>>
end_time_of(date, start, end) == <<end_date_of(date, start, end), end[1], end[2], 0>>

\* comment or f"Fitbit missed sleep before {end}"
comment_of(comment, end) ==
    IF comment # <<>> THEN comment ELSE <<"Fitbit missed sleep before ", end>>

\* "Remove any existing fixup for same date/time range":
\* f.get("dateOfSleep") == date and f.get("startTime") == start_time
same_fixup(f, date, start_time) ==
    /\ "dateOfSleep" \in DOMAIN f /\ f.dateOfSleep = date
    /\ "startTime" \in DOMAIN f /\ f.startTime = start_time

\* the list written back: the other fixups, then the new record
fixups_written(fixups, date, start_time, fixup_record_made) ==
    LET other(f) == ~same_fixup(f, date, start_time)
    IN  Append(SelectSeq(fixups, other), fixup_record_made)

\* the shell is ready for a fixup invocation
Prompt == pc \in {"fixup", "done", "exit_1", "raised"}

MaxFixups == 2

\* `fixup` without sleep.json: "No data", exit code 1
FixupNoData(a) ==
    /\ Prompt
    /\ ~sleep_json.exists
    /\ arg' = a
    /\ pc' = "exit_1"
    /\ UNCHANGED <<sleep_json, fixups_json, activities_json, subjective_json,
                   data_json, ret, tokens_json, locals, requests>>

\* `fixup` for a date without a main record: exit code 1
FixupNoReference(a) ==
    /\ Prompt
    /\ sleep_json.exists
    /\ find_reference(sleep_json.content, a.date) = None
    /\ arg' = a
    /\ pc' = "exit_1"
    /\ UNCHANGED <<sleep_json, fixups_json, activities_json, subjective_json,
                   data_json, ret, tokens_json, locals, requests>>

\* `fixup` whose generate_fixup_segments raises: nothing is written
FixupRaise(a) ==
    /\ Prompt
    /\ sleep_json.exists
    /\ find_reference(sleep_json.content, a.date) # None
    /\ generate_raises(find_reference(sleep_json.content, a.date)[1],
                       start_time_of(a.date, a.start),
                       end_time_of(a.date, a.start, a.end))
    /\ arg' = a
    /\ pc' = "raised"
    /\ UNCHANGED <<sleep_json, fixups_json, activities_json, subjective_json,
                   data_json, ret, tokens_json, locals, requests>>

\* a successful `fixup`: the record is generated, fixups.json is loaded (or
\* [] taken), the fixup of the same date and start removed, the record
\* appended and the file written.  ret is the record, locals the list as
\* loaded.
Fixup(a, draws) ==
    /\ Prompt
    /\ sleep_json.exists
    /\ find_reference(sleep_json.content, a.date) # None
    /\ LET reference == find_reference(sleep_json.content, a.date)[1]
           start_time == start_time_of(a.date, a.start)
           end_time == end_time_of(a.date, a.start, a.end)
           fixups == IF fixups_json.exists THEN fixups_json.content ELSE <<>>
       IN  /\ ~generate_raises(reference, start_time, end_time)
           /\ LET made == generate_fixup_segments(reference, start_time, end_time,
                                                  comment_of(a.comment, a.end), draws)
              IN  /\ Len(fixups_written(fixups, a.date, start_time, made)) <= MaxFixups
                  /\ fixups_json' = File(fixups_written(fixups, a.date, start_time, made))
                  /\ ret' = Some(made)
                  /\ locals' = [fixups |-> fixups, start_time |-> start_time,
                                end_time |-> end_time]
    /\ arg' = a
    /\ pc' = "done"
    /\ UNCHANGED <<sleep_json, activities_json, subjective_json, data_json,
                   tokens_json, requests>>

(***************************************************************************)
(* Inputs of fixup                                                         *)
(***************************************************************************)

\* a main record with light minutes only and two light segments
ReferenceRecord(d) ==
    [dateOfSleep |-> d, isMainSleep |-> TRUE, efficiency |-> 90,
     startTime |-> 4 * d, endTime |-> 4 * d + 2,
     levels |-> [summary |-> [deep |-> M(0), light |-> M(200), rem |-> M(0),
                              wake |-> M(0)],
                 data |-> <<Seg(4 * d, "light", 60), Seg(4 * d + 1, "light", 90)>>,
                 shortData |-> <<>>]]

\* a main record without deep, light, rem or wake minutes
ClassicRecord(d) ==
    [dateOfSleep |-> d, isMainSleep |-> TRUE, efficiency |-> 90,
     startTime |-> 4 * d, endTime |-> 4 * d + 2,
     levels |-> [summary |-> [asleep |-> M(30), awake |-> M(2), restless |-> M(3)],
                 data |-> <<Seg(4 * d, "asleep", 1800)>>]]

\* dates 1 and 2 have a usable main record (date 1 after a nap), date 3 a
\* classic one, date 4 only a nap
FixupSleepFiles ==
    {NoFile,
     File(<<NapRecord(1, 0), ReferenceRecord(1), ReferenceRecord(2), ClassicRecord(3),
            NapRecord(4, 0)>>)}

FixupArg(d, start, end, comment) ==
    [date |-> d, start |-> start, end |-> end, comment |-> comment]

\* windows across midnight (two ends), after midnight, across 18:00 and
\* after 18:00
FixupArgs ==
    {FixupArg(1, <<23, 59>>, <<0, 1>>, <<>>),
     FixupArg(1, <<23, 59>>, <<0, 2>>, <<"watch off">>),
     FixupArg(1, <<0, 0>>, <<0, 1>>, <<>>),
     FixupArg(1, <<17, 59>>, <<18, 0>>, <<>>),
     FixupArg(1, <<18, 0>>, <<18, 1>>, <<>>),
     FixupArg(2, <<23, 59>>, <<0, 1>>, <<>>),
     FixupArg(2, <<17, 59>>, <<18, 0>>, <<>>),
     FixupArg(3, <<23, 59>>, <<0, 1>>, <<>>),
     FixupArg(4, <<23, 59>>, <<0, 1>>, <<>>)}

FixupDraws == {<< <<0, 0>> >>, << <<0, 1>> >>, << <<1, 1>>, <<0, 0>> >>}

NextFixup ==
    \E a \in FixupArgs :
        \/ FixupNoData(a)
        \/ FixupNoReference(a)
        \/ FixupRaise(a)
        \/ \E draws \in FixupDraws : Fixup(a, draws)

InitFixup ==
    /\ sleep_json \in FixupSleepFiles
    /\ fixups_json \in {NoFile, File(<<>>)}
    /\ activities_json = NoFile /\ subjective_json = NoFile
    /\ data_json = NoFile
    /\ pc = "fixup"
    /\ arg = None
    /\ ret = None
    /\ tokens_json = NoFile /\ locals = None /\ requests = <<>>

SpecFixup == InitFixup /\ [][NextFixup]_vars

(***************************************************************************)
(* Claims about fixup                                                      *)
(***************************************************************************)

Fixups == fixups_json.content

\* no two records of fixups.json have the same dateOfSleep and startTime
OnePerKey ==
    \A i, j \in 1..Len(Fixups) :
        (Fixups[i].dateOfSleep = Fixups[j].dateOfSleep
            /\ Fixups[i].startTime = Fixups[j].startTime) => i = j

\* the invocation that just ended kept the fixups that key(f) does not
\* select, in their order, and put its record at the end
Replaced(key(_)) ==
    LET other(f) == ~key(f)
    IN  /\ Fixups # <<>>
        /\ Fixups[Len(Fixups)] = ret[1]
        /\ SubSeq(Fixups, 1, Len(Fixups) - 1) = SelectSeq(locals.fixups, other)

\* C14: after any sequence of successful fixup invocations fixups.json has
\* at most one record per (dateOfSleep, startTime); the record just made
\* has the date argument as its dateOfSleep and took the place of the
\* record of the same date and start time (the number of records is then
\* unchanged), and every other fixup is kept unchanged.
OneFixupPerDateAndStart ==
    /\ OnePerKey
    /\ pc = "done" =>
           LET same(f) == f.dateOfSleep = ret[1].dateOfSleep
                            /\ f.startTime = ret[1].startTime
           IN  /\ ret[1].dateOfSleep = arg.date
               /\ ret[1].startTime = locals.start_time
               /\ Replaced(same)
               /\ (\E i \in 1..Len(locals.fixups) : same(locals.fixups[i])) =>
                      Len(Fixups) = Len(locals.fixups)

\* What the code does keep: the record made takes the place of the fixups
\* whose stored dateOfSleep is the date argument and whose startTime is
\* the new start time; all others are kept, in their order.
FixupReplacesByArgument ==
    pc = "done" =>
        LET same(f) == f.dateOfSleep = arg.date /\ f.startTime = locals.start_time
        IN  /\ ret[1].startTime = locals.start_time
            /\ ret[1].endTime = locals.end_time
            /\ Replaced(same)

\* a fixup across midnight was made again with another end and took the
\* place of the first, beside a fixup of another date
FixupReplacesByArgumentWitness ==
    /\ pc = "done"
    /\ Len(locals.fixups) = 2 /\ Len(Fixups) = 2
    /\ locals.fixups[1].startTime = ret[1].startTime
    /\ locals.fixups[1].endTime # ret[1].endTime
    /\ Fixups[1] = locals.fixups[2]
    /\ Fixups[1].dateOfSleep # ret[1].dateOfSleep

\* a fixup ending after 18:00 was made twice and is stored twice
StoredTwice ==
    /\ pc = "done"
    /\ Len(Fixups) = 2
    /\ Fixups[1] = Fixups[2]

====
